---- MODULE Spec2Model ----
(***************************************************************************)
(* Model of music/src/core/data.ts: the DataConverter family that turns a  *)
(* quantized NoteSequence into a tensor (toTensor) and back                *)
(* (toNoteSequence).  Converters are pure; the state machine holds one     *)
(* converter, one input NoteSequence, the tensor produced by toTensor and  *)
(* the NoteSequence produced by toNoteSequence.                            *)
(***************************************************************************)
EXTENDS Integers, Sequences, FiniteSets

VARIABLES conv, noteSequence, tensor, decoded, pc

vars == <<conv, noteSequence, tensor, decoded, pc>>

(***************************************************************************)
(* Bounds of the model.                                                    *)
(***************************************************************************)
MaxNotes == 2
MaxStep == 3
MaxTrioNotes == 3

(***************************************************************************)
(* Program constants.                                                      *)
(***************************************************************************)
NOTE_OFF == 1
FIRST_PITCH == 2
MEL_PROG_RANGE == <<0, 31>>
BASS_PROG_RANGE == <<32, 39>>

(***************************************************************************)
(* Generic helpers.                                                        *)
(***************************************************************************)
RECURSIVE Pow2(_)
Pow2(n) == IF n = 0 THEN 1 ELSE 2 * Pow2(n - 1)

Zeros(n) == [i \in 1..n |-> 0]

SeqsUpTo(S, n) == UNION {[1..k -> S] : k \in 0..n}

(***************************************************************************)
(* NoteSequence.Note.create: unset fields take the protobuf defaults.      *)
(***************************************************************************)
Note(p, s, e, d, prog, inst) ==
  [pitch |-> p, quantizedStartStep |-> s, quantizedEndStep |-> e,
   isDrum |-> d, program |-> prog, instrument |-> inst]

(***************************************************************************)
(* tf.buffer: a flat typed array plus a shape.  set(value, ...locs) writes *)
(* values[locToIndex(locs)], where locToIndex adds the last coordinate to  *)
(* stride * row without any range check; a write to an index outside the   *)
(* typed array is dropped.                                                 *)
(***************************************************************************)
Buffer(shape) ==
  [shape |-> shape,
   values |-> Zeros(IF Len(shape) = 1 THEN shape[1] ELSE shape[1] * shape[2])]

LocToIndex(shape, locs) ==
  IF Len(shape) = 1 THEN locs[1] ELSE locs[2] + shape[2] * locs[1]

BufferSet(buf, value, locs) ==
  LET index == LocToIndex(buf.shape, locs)
  IN IF index \in 0..(Len(buf.values) - 1)
     THEN [buf EXCEPT !.values[index + 1] = value]
     ELSE buf

(***************************************************************************)
(* Tensors: a 2-D tensor is its shape and its rows; an encode that throws  *)
(* is recorded in the error field.                                         *)
(***************************************************************************)
Tensor2D(n, w, rows) == [error |-> "none", shape |-> <<n, w>>, rows |-> rows]

Thrown(e) == [error |-> e, shape |-> <<0, 0>>, rows |-> <<>>]

NoTensor == Thrown("unset")

BufferToTensor2D(buf) ==
  Tensor2D(buf.shape[1], buf.shape[2],
           [r \in 1..buf.shape[1] |->
              [c \in 1..buf.shape[2] |-> buf.values[(r - 1) * buf.shape[2] + c]]])

\* tf.oneHot(labels, depth): a label outside 0..depth-1 gives an all-zero row.
OneHot(labels, depth) ==
  Tensor2D(Len(labels), depth,
           [r \in 1..Len(labels) |->
              [c \in 1..depth |-> IF labels[r] = c - 1 THEN 1 ELSE 0]])

\* argMax over one row: the first index holding the row's maximum.
ArgMaxRow(row) ==
  CHOOSE i \in 0..(Len(row) - 1) :
    /\ \A j \in 0..(Len(row) - 1) : row[j + 1] <= row[i + 1]
    /\ \A j \in 0..(i - 1) : row[j + 1] < row[i + 1]

ArgMax(t) == [r \in 1..Len(t.rows) |-> ArgMaxRow(t.rows[r])]

\* tf.concat(ts, -1): all tensors must have the same number of rows.
RECURSIVE Concat(_)
Concat(ts) ==
  IF Len(ts) = 1 THEN ts[1]
  ELSE LET a == ts[1]
           b == Concat(Tail(ts))
       IN IF a.error # "none" THEN a
          ELSE IF b.error # "none" THEN b
          ELSE IF a.shape[1] # b.shape[1] THEN Thrown("ConcatShape")
          ELSE Tensor2D(a.shape[1], a.shape[2] + b.shape[2],
                        [r \in 1..a.shape[1] |-> a.rows[r] \o b.rows[r]])

\* One piece of tf.split(t, sizes, -1): `width` columns starting at `from`.
SplitPiece(t, from, width) ==
  Tensor2D(t.shape[1], width,
           [r \in 1..t.shape[1] |-> SubSeq(t.rows[r], from + 1, from + width)])

(***************************************************************************)
(* DataConverter.constructor and the step count every toTensor starts      *)
(* with: `this.numSteps || noteSequence.totalQuantizedSteps`.  An          *)
(* unconfigured numSteps is modelled as 0, which is falsy like undefined.  *)
(***************************************************************************)
NumSteps(c, ns) == IF c.numSteps # 0 THEN c.numSteps ELSE ns.totalQuantizedSteps

(***************************************************************************)
(* MelodyConverter                                                         *)
(***************************************************************************)
\* Faulty variant: the depth leaves out the `+ 1` of the inclusive range.
MelodyConverter_DepthShort(args) ==
  [type |-> "MelodyConverter", numSteps |-> args.numSteps,
   minPitch |-> args.minPitch, maxPitch |-> args.maxPitch,
   depth |-> args.maxPitch - args.minPitch + FIRST_PITCH]

MelodyConverter(args) ==
  [type |-> "MelodyConverter", numSteps |-> args.numSteps,
   minPitch |-> args.minPitch, maxPitch |-> args.maxPitch,
   depth |-> args.maxPitch - args.minPitch + 1 + FIRST_PITCH]

\* notes.sort((n1, n2) => n1.quantizedStartStep - n2.quantizedStartStep),
\* a stable sort: n goes after every note that starts no later than it.
InsertByStart(sorted, n) ==
  LET before == {i \in 1..Len(sorted) :
                   sorted[i].quantizedStartStep <= n.quantizedStartStep}
      k == Cardinality(before)
  IN SubSeq(sorted, 1, k) \o <<n>> \o SubSeq(sorted, k + 1, Len(sorted))

RECURSIVE SortByStart(_)
SortByStart(notes) ==
  IF notes = <<>> THEN <<>>
  ELSE InsertByStart(SortByStart(SubSeq(notes, 1, Len(notes) - 1)),
                     notes[Len(notes)])

\* Faulty variant: `<=` in the monophony test, so touching notes throw.
RECURSIVE MelodyForEach_Touching(_, _, _, _)
MelodyForEach_Touching(c, notes, mel, lastEnd) ==
  IF notes = <<>> THEN [error |-> "none", mel |-> mel]
  ELSE LET n == Head(notes)
       IN IF n.quantizedStartStep <= lastEnd
          THEN [error |-> "NotMonophonic", mel |-> mel]
          ELSE IF n.pitch < c.minPitch \/ n.pitch > c.maxPitch
          THEN [error |-> "PitchOutOfRange", mel |-> mel]
          ELSE MelodyForEach_Touching(
                 c, Tail(notes),
                 BufferSet(BufferSet(mel, n.pitch - c.minPitch + FIRST_PITCH,
                                     <<n.quantizedStartStep>>),
                           NOTE_OFF, <<n.quantizedEndStep>>),
                 n.quantizedEndStep)

\* Faulty variant: the note-off is written on the note's last step instead
\* of its end step.
RECURSIVE MelodyForEach_OffEarly(_, _, _, _)
MelodyForEach_OffEarly(c, notes, mel, lastEnd) ==
  IF notes = <<>> THEN [error |-> "none", mel |-> mel]
  ELSE LET n == Head(notes)
       IN IF n.quantizedStartStep < lastEnd
          THEN [error |-> "NotMonophonic", mel |-> mel]
          ELSE IF n.pitch < c.minPitch \/ n.pitch > c.maxPitch
          THEN [error |-> "PitchOutOfRange", mel |-> mel]
          ELSE MelodyForEach_OffEarly(
                 c, Tail(notes),
                 BufferSet(BufferSet(mel, n.pitch - c.minPitch + FIRST_PITCH,
                                     <<n.quantizedStartStep>>),
                           NOTE_OFF, <<n.quantizedEndStep - 1>>),
                 n.quantizedEndStep)

\* The forEach of MelodyConverter.toTensor over the sorted notes.
RECURSIVE MelodyForEach(_, _, _, _)
MelodyForEach(c, notes, mel, lastEnd) ==
  IF notes = <<>> THEN [error |-> "none", mel |-> mel]
  ELSE LET n == Head(notes)
       IN IF n.quantizedStartStep < lastEnd
          THEN [error |-> "NotMonophonic", mel |-> mel]
          ELSE IF n.pitch < c.minPitch \/ n.pitch > c.maxPitch
          THEN [error |-> "PitchOutOfRange", mel |-> mel]
          ELSE MelodyForEach(
                 c, Tail(notes),
                 BufferSet(BufferSet(mel, n.pitch - c.minPitch + FIRST_PITCH,
                                     <<n.quantizedStartStep>>),
                           NOTE_OFF, <<n.quantizedEndStep>>),
                 n.quantizedEndStep)

\* The label buffer `mel` that toTensor turns into a one-hot tensor.
MelodyLabels(c, ns) ==
  MelodyForEach(c, SortByStart(ns.notes), Buffer(<<NumSteps(c, ns)>>), -1)

MelodyConverter_toTensor(c, ns) ==
  LET r == MelodyLabels(c, ns)
  IN IF r.error # "none" THEN Thrown(r.error)
     ELSE OneHot(r.mel.values, c.depth)

\* Faulty variant: a note still open after the last step is not emitted.
RECURSIVE MelodyScan_NoFlush(_, _, _, _, _)
MelodyScan_NoFlush(c, labels, s, currNote, notes) ==
  IF s >= Len(labels) THEN notes
  ELSE LET label == labels[s + 1]
           closed == IF currNote # <<>>
                     THEN Append(notes, [currNote[1] EXCEPT !.quantizedEndStep = s])
                     ELSE notes
       IN IF label = 0 THEN MelodyScan_NoFlush(c, labels, s + 1, currNote, notes)
          ELSE IF label = 1 THEN MelodyScan_NoFlush(c, labels, s + 1, <<>>, closed)
          ELSE MelodyScan_NoFlush(c, labels, s + 1,
                                  <<Note(label - FIRST_PITCH + c.minPitch, s, 0,
                                         FALSE, 0, 0)>>,
                                  closed)

\* The scan of MelodyConverter.toNoteSequence from step s on; currNote is
\* <<>> for null and <<note>> for an open note.
RECURSIVE MelodyScan(_, _, _, _, _)
MelodyScan(c, labels, s, currNote, notes) ==
  IF s >= Len(labels)
  THEN IF currNote # <<>>
       THEN Append(notes, [currNote[1] EXCEPT !.quantizedEndStep = Len(labels)])
       ELSE notes
  ELSE LET label == labels[s + 1]
           closed == IF currNote # <<>>
                     THEN Append(notes, [currNote[1] EXCEPT !.quantizedEndStep = s])
                     ELSE notes
       IN IF label = 0 THEN MelodyScan(c, labels, s + 1, currNote, notes)
          ELSE IF label = 1 THEN MelodyScan(c, labels, s + 1, <<>>, closed)
          ELSE MelodyScan(c, labels, s + 1,
                          <<Note(label - FIRST_PITCH + c.minPitch, s, 0,
                                 FALSE, 0, 0)>>,
                          closed)

MelodyConverter_toNoteSequence(c, oh) == MelodyScan(c, ArgMax(oh), 0, <<>>, <<>>)

(***************************************************************************)
(* DrumsConverter, DrumRollConverter (which inherits the constructor and   *)
(* toTensor) and DrumsOneHotConverter.                                     *)
(***************************************************************************)
\* pitchToClass: Map.set in class order, so a pitch listed in several
\* classes keeps the last one; Map.get of an unlisted pitch is undefined.
PitchToClass(pitchClasses) ==
  [p \in UNION {{pitchClasses[c][i] : i \in 1..Len(pitchClasses[c])} :
                  c \in 1..Len(pitchClasses)} |->
     (CHOOSE c \in 1..Len(pitchClasses) :
        /\ \E i \in 1..Len(pitchClasses[c]) : pitchClasses[c][i] = p
        /\ \A d \in (c + 1)..Len(pitchClasses) :
             \A i \in 1..Len(pitchClasses[d]) : pitchClasses[d][i] # p) - 1]

DrumsConverter(type, args) ==
  [type |-> type, numSteps |-> args.numSteps,
   pitchClasses |-> args.pitchClasses,
   pitchToClass |-> PitchToClass(args.pitchClasses),
   depth |-> Len(args.pitchClasses)]

DrumsOneHotConverter(args) ==
  [DrumsConverter("DrumsOneHotConverter", args)
     EXCEPT !.depth = Pow2(Len(args.pitchClasses))]

\* `for (i...) drumRoll.set(1, i, -1)` from row i up to the last row.
RECURSIVE SetFinalValues(_, _, _)
SetFinalValues(drumRoll, i, numSteps) ==
  IF i >= numSteps THEN drumRoll
  ELSE SetFinalValues(BufferSet(drumRoll, 1, <<i, -1>>), i + 1, numSteps)

\* The forEach of DrumsConverter.toTensor.  For an unmapped pitch the
\* column is undefined, the flat index is NaN and the write is dropped.
RECURSIVE DrumsForEach(_, _, _)
DrumsForEach(c, notes, drumRoll) ==
  IF notes = <<>> THEN drumRoll
  ELSE LET note == Head(notes)
           hit == IF note.pitch \in DOMAIN c.pitchToClass
                  THEN BufferSet(drumRoll, 1,
                                 <<note.quantizedStartStep,
                                   c.pitchToClass[note.pitch]>>)
                  ELSE drumRoll
       IN DrumsForEach(c, Tail(notes),
                       BufferSet(hit, 0, <<note.quantizedStartStep, -1>>))

DrumsConverter_toTensor(c, ns) ==
  LET numSteps == NumSteps(c, ns)
      drumRoll == Buffer(<<numSteps, Len(c.pitchClasses) + 1>>)
  IN BufferToTensor2D(
       DrumsForEach(c, ns.notes, SetFinalValues(drumRoll, 0, numSteps)))

\* DrumsConverter.toNoteSequence: notes of step s from class p on.
RECURSIVE DrumsStepNotes(_, _, _, _)
DrumsStepNotes(c, label, s, p) ==
  IF p >= Len(c.pitchClasses) THEN <<>>
  ELSE (IF (label \div Pow2(p)) % 2 = 1
        THEN <<Note(c.pitchClasses[p + 1][1], s, s + 1, TRUE, 0, 0)>>
        ELSE <<>>) \o DrumsStepNotes(c, label, s, p + 1)

RECURSIVE DrumsScan(_, _, _)
DrumsScan(c, labels, s) ==
  IF s >= Len(labels) THEN <<>>
  ELSE DrumsStepNotes(c, labels[s + 1], s, 0) \o DrumsScan(c, labels, s + 1)

DrumsConverter_toNoteSequence(c, oh) == DrumsScan(c, ArgMax(oh), 0)

\* The label array of DrumsOneHotConverter.toTensor.  An element is a
\* number or NaN; `labels[i] += x` past the end of the array reads undefined,
\* stores NaN and lengthens the array, leaving holes before it (a hole reads
\* as undefined, which behaves like NaN both under += and as an int32).
Num(v) == [nan |-> FALSE, val |-> v]

NaN == [nan |-> TRUE, val |-> 0]

\* Faulty variant: `=` instead of `+=`, so a later hit replaces the label.
ArrayAdd_Assign(labels, i, known, x) ==
  IF i + 1 <= Len(labels)
  THEN [labels EXCEPT ![i + 1] = IF ~known THEN NaN ELSE Num(x)]
  ELSE labels \o [k \in 1..(i - Len(labels)) |-> NaN] \o <<NaN>>

ArrayAdd(labels, i, known, x) ==
  IF i + 1 <= Len(labels)
  THEN [labels EXCEPT ![i + 1] = IF @.nan \/ ~known THEN NaN ELSE Num(@.val + x)]
  ELSE labels \o [k \in 1..(i - Len(labels)) |-> NaN] \o <<NaN>>

RECURSIVE OneHotForOf(_, _, _)
OneHotForOf(c, notes, labels) ==
  IF notes = <<>> THEN labels
  ELSE LET note == Head(notes)
           known == note.pitch \in DOMAIN c.pitchToClass
       IN OneHotForOf(
            c, Tail(notes),
            ArrayAdd(labels, note.quantizedStartStep, known,
                     IF known THEN Pow2(c.pitchToClass[note.pitch]) ELSE 0))

\* tf.tensor1d(labels, 'int32'): NaN and holes become 0 in the Int32Array.
ToInt32(labels) == [i \in 1..Len(labels) |-> IF labels[i].nan THEN 0 ELSE labels[i].val]

DrumsOneHotLabels(c, ns) ==
  ToInt32(OneHotForOf(c, ns.notes, [i \in 1..NumSteps(c, ns) |-> Num(0)]))

DrumsOneHotConverter_toTensor(c, ns) == OneHot(DrumsOneHotLabels(c, ns), c.depth)

(***************************************************************************)
(* TrioConverter                                                           *)
(***************************************************************************)
TrioConverter(args) ==
  LET mel == MelodyConverter([args.melArgs EXCEPT !.numSteps = args.numSteps])
      bass == MelodyConverter([args.bassArgs EXCEPT !.numSteps = args.numSteps])
      drums == DrumsOneHotConverter(
                 [args.drumsArgs EXCEPT !.numSteps = args.numSteps])
  IN [type |-> "TrioConverter", numSteps |-> args.numSteps,
      melConverter |-> mel, bassConverter |-> bass, drumsConverter |-> drums,
      depth |-> mel.depth + bass.depth + drums.depth]

\* Faulty variant: the upper end of the melody program range is not tested.
IsMel_NoUpper(n) == ~n.isDrum /\ n.program >= MEL_PROG_RANGE[1]

IsMel(n) ==
  ~n.isDrum /\ n.program >= MEL_PROG_RANGE[1] /\ n.program <= MEL_PROG_RANGE[2]

IsBass(n) ==
  ~n.isDrum /\ n.program >= BASS_PROG_RANGE[1] /\ n.program <= BASS_PROG_RANGE[2]

IsDrum(n) == n.isDrum

MelSeq(ns) == [ns EXCEPT !.notes = SelectSeq(ns.notes, IsMel)]

BassSeq(ns) == [ns EXCEPT !.notes = SelectSeq(ns.notes, IsBass)]

DrumsSeq(ns) == [ns EXCEPT !.notes = SelectSeq(ns.notes, IsDrum)]

\* The three sub-encodes run in order inside tf.tidy; the first throw wins.
TrioConverter_toTensor(c, ns) ==
  LET mel == MelodyConverter_toTensor(c.melConverter, MelSeq(ns))
      bass == MelodyConverter_toTensor(c.bassConverter, BassSeq(ns))
      drums == DrumsOneHotConverter_toTensor(c.drumsConverter, DrumsSeq(ns))
  IN IF mel.error # "none" THEN mel
     ELSE IF bass.error # "none" THEN bass
     ELSE Concat(<<mel, bass, drums>>)

Tag(notes, inst, setProgram, prog) ==
  [i \in 1..Len(notes) |->
     [notes[i] EXCEPT !.instrument = inst,
                      !.program = IF setProgram THEN prog ELSE @]]

\* Faulty variant: the bass notes are tagged but keep the decoded program.
TrioConverter_toNoteSequence_BassProgram(c, th) ==
  LET d1 == c.melConverter.depth
      d2 == c.bassConverter.depth
      d3 == c.drumsConverter.depth
      ns == MelodyConverter_toNoteSequence(c.melConverter, SplitPiece(th, 0, d1))
      bassNs == MelodyConverter_toNoteSequence(c.bassConverter,
                                               SplitPiece(th, d1, d2))
      drumsNs == DrumsConverter_toNoteSequence(c.drumsConverter,
                                               SplitPiece(th, d1 + d2, d3))
  IN Tag(ns, 0, TRUE, 0) \o Tag(bassNs, 1, FALSE, 0) \o Tag(drumsNs, 2, FALSE, 0)

TrioConverter_toNoteSequence(c, th) ==
  LET d1 == c.melConverter.depth
      d2 == c.bassConverter.depth
      d3 == c.drumsConverter.depth
      ns == MelodyConverter_toNoteSequence(c.melConverter, SplitPiece(th, 0, d1))
      bassNs == MelodyConverter_toNoteSequence(c.bassConverter,
                                               SplitPiece(th, d1, d2))
      drumsNs == DrumsConverter_toNoteSequence(c.drumsConverter,
                                               SplitPiece(th, d1 + d2, d3))
  IN Tag(ns, 0, TRUE, 0) \o Tag(bassNs, 1, TRUE, BASS_PROG_RANGE[1])
       \o Tag(drumsNs, 2, FALSE, 0)

(***************************************************************************)
(* Inputs: converter arguments and quantized note sequences.  A quantized  *)
(* note has 0 <= quantizedStartStep < quantizedEndStep.                    *)
(***************************************************************************)
Intervals(last) == {se \in (0..last) \X (0..last) : se[1] < se[2]}

StepChoices == {0} \cup ((MaxStep - 1)..MaxStep)

MelodyArgs ==
  {[minPitch |-> 60, maxPitch |-> 61, numSteps |-> k] : k \in StepChoices}

MelodyNotes ==
  {Note(p, se[1], se[2], FALSE, 0, 0) : p \in 59..62, se \in Intervals(MaxStep)}

DrumTables ==
  {<<<<36>>, <<38>>>>, <<<<36, 35>>, <<38>>>>, <<<<36, 35>>, <<38, 35>>>>,
   <<<<36>>, <<38>>, <<42>>>>}

DrumsArgs ==
  {[pitchClasses |-> t, numSteps |-> k] : t \in DrumTables, k \in StepChoices}

DrumNotes ==
  {Note(p, s, s + 1, TRUE, 0, 0) : p \in {35, 36, 38, 40, 42}, s \in 0..(MaxStep - 1)}

TrioArgs ==
  {[numSteps |-> k,
    melArgs |-> [minPitch |-> 60, maxPitch |-> 61, numSteps |-> 0],
    bassArgs |-> [minPitch |-> 36, maxPitch |-> 37, numSteps |-> 0],
    drumsArgs |-> [pitchClasses |-> <<<<36, 35>>, <<38>>>>, numSteps |-> 0]] :
     k \in 0..2}

TrioNotes ==
  {Note(60, 0, 1, FALSE, 0, 0), Note(60, 0, 2, FALSE, 0, 0),
   Note(61, 1, 2, FALSE, 0, 0), Note(60, 0, 1, FALSE, 31, 0),
   Note(36, 0, 2, FALSE, 32, 0), Note(37, 1, 2, FALSE, 32, 0),
   Note(36, 0, 1, FALSE, 39, 0),
   Note(36, 0, 1, TRUE, 0, 0), Note(36, 1, 2, TRUE, 0, 0),
   Note(36, 0, 2, TRUE, 0, 0), Note(35, 0, 1, TRUE, 0, 0),
   Note(38, 0, 1, TRUE, 32, 0),
   Note(60, 0, 1, FALSE, 40, 0), Note(36, 1, 2, FALSE, 40, 0)}

Sequence(notes, total) == [notes |-> notes, totalQuantizedSteps |-> total]

(***************************************************************************)
(* The state machine.                                                      *)
(***************************************************************************)
Start ==
  /\ tensor = NoTensor
  /\ decoded = <<>>
  /\ pc = "input"

InitMelody ==
  /\ conv \in {MelodyConverter(a) : a \in MelodyArgs}
  /\ noteSequence \in {Sequence(n, MaxStep) : n \in SeqsUpTo(MelodyNotes, MaxNotes)}
  /\ Start

InitDrums ==
  /\ conv \in {DrumsConverter(t, a) :
                 t \in {"DrumsConverter", "DrumRollConverter"}, a \in DrumsArgs}
              \cup {DrumsOneHotConverter(a) : a \in DrumsArgs}
  /\ noteSequence \in {Sequence(n, MaxStep) : n \in SeqsUpTo(DrumNotes, MaxNotes)}
  /\ Start

InitTrio ==
  /\ conv \in {TrioConverter(a) : a \in TrioArgs}
  /\ noteSequence \in {Sequence(n, 2) : n \in SeqsUpTo(TrioNotes, MaxTrioNotes)}
  /\ Start

Init == InitMelody \/ InitDrums \/ InitTrio

\* MelodyConverter.toTensor; the sort is in place, so the caller's notes end
\* up in start order whether or not the encode throws.
MelodyToTensor ==
  /\ pc = "input"
  /\ conv.type = "MelodyConverter"
  /\ tensor' = MelodyConverter_toTensor(conv, noteSequence)
  /\ noteSequence' = [noteSequence EXCEPT !.notes = SortByStart(@)]
  /\ pc' = "encoded"
  /\ UNCHANGED <<conv, decoded>>

DrumsToTensor ==
  /\ pc = "input"
  /\ conv.type \in {"DrumsConverter", "DrumRollConverter"}
  /\ tensor' = DrumsConverter_toTensor(conv, noteSequence)
  /\ pc' = "encoded"
  /\ UNCHANGED <<conv, noteSequence, decoded>>

DrumsOneHotToTensor ==
  /\ pc = "input"
  /\ conv.type = "DrumsOneHotConverter"
  /\ tensor' = DrumsOneHotConverter_toTensor(conv, noteSequence)
  /\ pc' = "encoded"
  /\ UNCHANGED <<conv, noteSequence, decoded>>

TrioToTensor ==
  /\ pc = "input"
  /\ conv.type = "TrioConverter"
  /\ tensor' = TrioConverter_toTensor(conv, noteSequence)
  /\ pc' = "encoded"
  /\ UNCHANGED <<conv, noteSequence, decoded>>

MelodyToNoteSequence ==
  /\ pc = "encoded"
  /\ tensor.error = "none"
  /\ conv.type = "MelodyConverter"
  /\ decoded' = MelodyConverter_toNoteSequence(conv, tensor)
  /\ pc' = "decoded"
  /\ UNCHANGED <<conv, noteSequence, tensor>>

DrumsOneHotToNoteSequence ==
  /\ pc = "encoded"
  /\ tensor.error = "none"
  /\ conv.type = "DrumsOneHotConverter"
  /\ decoded' = DrumsConverter_toNoteSequence(conv, tensor)
  /\ pc' = "decoded"
  /\ UNCHANGED <<conv, noteSequence, tensor>>

TrioToNoteSequence ==
  /\ pc = "encoded"
  /\ tensor.error = "none"
  /\ conv.type = "TrioConverter"
  /\ decoded' = TrioConverter_toNoteSequence(conv, tensor)
  /\ pc' = "decoded"
  /\ UNCHANGED <<conv, noteSequence, tensor>>

Next ==
  \/ MelodyToTensor
  \/ DrumsToTensor
  \/ DrumsOneHotToTensor
  \/ TrioToTensor
  \/ MelodyToNoteSequence
  \/ DrumsOneHotToNoteSequence
  \/ TrioToNoteSequence

Spec == Init /\ [][Next]_vars

NextMelody == MelodyToTensor \/ MelodyToNoteSequence

SpecMelody == InitMelody /\ [][NextMelody]_vars

NextDrums == DrumsToTensor \/ DrumsOneHotToTensor \/ DrumsOneHotToNoteSequence

SpecDrums == InitDrums /\ [][NextDrums]_vars

NextTrio == TrioToTensor \/ TrioToNoteSequence

SpecTrio == InitTrio /\ [][NextTrio]_vars

(***************************************************************************)
(* Decoding a model's output: any 0/1 tensor of the melody depth, not only *)
(* one that toTensor produced.                                             *)
(***************************************************************************)
OutputRows(depth) == [1..depth -> {0, 1}]

InitDecode ==
  /\ conv \in {MelodyConverter(a) : a \in MelodyArgs}
  /\ noteSequence = Sequence(<<>>, MaxStep)
  /\ \E n \in 1..MaxStep :
       \E rows \in [1..n -> OutputRows(conv.depth)] :
         tensor = Tensor2D(n, conv.depth, rows)
  /\ decoded = <<>>
  /\ pc = "encoded"

SpecDecode == InitDecode /\ [][MelodyToNoteSequence]_vars

(***************************************************************************)
(* Vocabulary of the properties, stated on the program's state.            *)
(***************************************************************************)
Notes == noteSequence.notes

NoteSet(seq) == {seq[i] : i \in 1..Len(seq)}

\* The step count of the encode: numSteps if configured, else the sequence's.
StepCount ==
  IF conv.numSteps # 0 THEN conv.numSteps ELSE noteSequence.totalQuantizedSteps

Core(n) == <<n.pitch, n.quantizedStartStep, n.quantizedEndStep>>

Cores(seq) == {Core(seq[i]) : i \in 1..Len(seq)}

\* Two distinct positions of seq hold notes that overlap in time.
Overlapping(seq) ==
  \E i, j \in 1..Len(seq) :
    /\ i # j
    /\ seq[i].quantizedStartStep <= seq[j].quantizedStartStep
    /\ seq[j].quantizedStartStep < seq[i].quantizedEndStep

OutOfRange(n, lo, hi) == n.pitch < lo \/ n.pitch > hi

IsMelodyConv == conv.type = "MelodyConverter"

MelodyRepresentable ==
  /\ IsMelodyConv
  /\ ~Overlapping(Notes)
  /\ \A n \in NoteSet(Notes) :
       /\ ~OutOfRange(n, conv.minPitch, conv.maxPitch)
       /\ n.quantizedEndStep <= StepCount

(***************************************************************************)
(* C1.  Melody round trip: a monophonic sequence with every pitch in       *)
(* [minPitch, maxPitch] and every note within steps 0..N encodes without   *)
(* error and decodes to exactly the same notes (pitch, start, end), none   *)
(* added, removed, mispitched or re-ended.                                 *)
(***************************************************************************)
MelodyRoundTrip ==
  MelodyRepresentable =>
    /\ pc = "encoded" => tensor.error = "none"
    /\ pc = "decoded" =>
         /\ Cores(decoded) = Cores(Notes)
         /\ Len(decoded) = Len(Notes)

MelodyRoundTripWitness ==
  /\ MelodyRepresentable
  /\ pc = "decoded"
  /\ Len(Notes) = 2
  /\ Notes[1].quantizedEndStep = Notes[2].quantizedStartStep
  /\ Notes[2].quantizedEndStep = StepCount

(***************************************************************************)
(* C4.  Melody encode errors.                                              *)
(***************************************************************************)
\* Note i of the start-ordered notes starts before its predecessor's end.
StartsEarly(i) ==
  i > 1 /\ Notes[i].quantizedStartStep < Notes[i - 1].quantizedEndStep

PitchBad(i) == OutOfRange(Notes[i], conv.minPitch, conv.maxPitch)

Violators == {i \in 1..Len(Notes) : StartsEarly(i) \/ PitchBad(i)}

FirstViolator == CHOOSE i \in Violators : \A j \in Violators : i <= j

\* C4 as stated: not-monophonic whenever some note starts early, pitch out
\* of range whenever some pitch is out of range, success otherwise.
MelodyErrorsAsStated ==
  (IsMelodyConv /\ pc = "encoded") =>
    /\ (\E i \in 1..Len(Notes) : StartsEarly(i)) => tensor.error = "NotMonophonic"
    /\ (\E i \in 1..Len(Notes) : PitchBad(i)) => tensor.error = "PitchOutOfRange"
    /\ Violators = {} => tensor.error = "none"

\* C4 amended: the encode fails exactly when some note starts early or has a
\* pitch out of range, and the error is the one of the first such note in
\* start order, the monophony check coming first; so a note starting at
\* its predecessor's end and a note from step 0 to numSteps are accepted.
MelodyErrors ==
  (IsMelodyConv /\ pc = "encoded") =>
    /\ tensor.error = "none" <=> Violators = {}
    /\ Violators # {} =>
         tensor.error = IF StartsEarly(FirstViolator) THEN "NotMonophonic"
                        ELSE "PitchOutOfRange"
    /\ \A i \in 2..Len(Notes) :
         Notes[i - 1].quantizedStartStep <= Notes[i].quantizedStartStep

MelodyErrorsWitness ==
  /\ IsMelodyConv
  /\ pc = "encoded"
  /\ tensor.error = "PitchOutOfRange"
  /\ \E i \in 1..Len(Notes) : StartsEarly(i)

MelodyBoundaryWitness ==
  /\ IsMelodyConv
  /\ pc = "encoded"
  /\ tensor.error = "none"
  /\ Len(Notes) = 2
  /\ Notes[1].quantizedStartStep = 0
  /\ Notes[1].quantizedEndStep = Notes[2].quantizedStartStep
  /\ Notes[2].quantizedEndStep = StepCount

(***************************************************************************)
(* C9.  The melody scenario: minPitch 60, maxPitch 61, numSteps 3 and the  *)
(* single note {pitch 60, start 0, end 2}.                                 *)
(***************************************************************************)
MelodyScenario ==
  /\ IsMelodyConv
  /\ conv.minPitch = 60 /\ conv.maxPitch = 61 /\ conv.numSteps = 3
  /\ Notes = <<Note(60, 0, 2, FALSE, 0, 0)>>
  /\ pc \in {"encoded", "decoded"}

\* C9 as stated: the labels are [2, 1, 0], one-hot over 4 columns, and the
\* decode returns the note.
MelodyScenarioAsStated ==
  MelodyScenario =>
    /\ tensor.shape = <<3, 4>>
    /\ tensor.rows = <<<<0, 0, 1, 0>>, <<0, 1, 0, 0>>, <<1, 0, 0, 0>>>>
    /\ pc = "decoded" => decoded = Notes

\* C9 amended: the labels are [2, 0, 1] (pitch-on at step 0, continuation
\* at step 1, note-off at the end step 2), one-hot over 4 columns, and the
\* decode returns exactly the original note.
MelodyScenarioLabels ==
  MelodyScenario =>
    /\ tensor.shape = <<3, 4>>
    /\ tensor.rows = <<<<0, 0, 1, 0>>, <<1, 0, 0, 0>>, <<0, 1, 0, 0>>>>
    /\ pc = "decoded" => decoded = Notes

MelodyScenarioWitness == MelodyScenario /\ pc = "decoded"

(***************************************************************************)
(* C10.  Melody decode scan over any label sequence L of length N: one     *)
(* note per step s with L[s] >= 2, of pitch L[s] - 2 + minPitch, from s to *)
(* the first later step with a label >= 1, or to N; nothing else; the      *)
(* notes come in strictly increasing start order and never overlap.        *)
(***************************************************************************)
Labels == ArgMax(tensor)

PitchOnSteps(L) == {s \in 0..(Len(L) - 1) : L[s + 1] >= FIRST_PITCH}

EndOf(L, s) ==
  LET later == {t \in (s + 1)..(Len(L) - 1) : L[t + 1] >= NOTE_OFF}
  IN IF later = {} THEN Len(L)
     ELSE CHOOSE t \in later : \A u \in later : t <= u

ScanOf(L, out) ==
  /\ Len(out) = Cardinality(PitchOnSteps(L))
  /\ \A s \in PitchOnSteps(L) :
       Note(L[s + 1] - 2 + conv.minPitch, s, EndOf(L, s), FALSE, 0, 0)
         \in NoteSet(out)
  /\ \A i \in 1..Len(out) :
       /\ out[i].quantizedStartStep < out[i].quantizedEndStep
       /\ out[i].quantizedEndStep <= Len(L)
       /\ i < Len(out) =>
            /\ out[i].quantizedStartStep < out[i + 1].quantizedStartStep
            /\ out[i].quantizedEndStep <= out[i + 1].quantizedStartStep

MelodyDecodeScan == (IsMelodyConv /\ pc = "decoded") => ScanOf(Labels, decoded)

\* A pitch-on closed by the next pitch-on, a stray note-off, and a note
\* left open to the end.
MelodyDecodeScanWitness ==
  /\ IsMelodyConv
  /\ pc = "decoded"
  /\ Len(decoded) = 2
  /\ LET L == Labels
     IN Len(L) = 3 /\ L[1] = NOTE_OFF /\ L[2] >= FIRST_PITCH /\ L[3] >= FIRST_PITCH

(***************************************************************************)
(* Vocabulary of the drum properties.                                      *)
(***************************************************************************)
IsRollConv == conv.type \in {"DrumsConverter", "DrumRollConverter"}

IsOneHotConv == conv.type = "DrumsOneHotConverter"

ClassCount(c) == Len(c.pitchClasses)

Mapped(c, n) == n.pitch \in DOMAIN c.pitchToClass

\* The classes of converter c hit at step s by the notes of seq.
ClassesHit(c, seq, s) ==
  {c.pitchToClass[n.pitch] :
     n \in {m \in NoteSet(seq) : Mapped(c, m) /\ m.quantizedStartStep = s}}

RECURSIVE SumPow2(_)
SumPow2(classes) ==
  IF classes = {} THEN 0
  ELSE LET k == CHOOSE k \in classes : TRUE
       IN Pow2(k) + SumPow2(classes \ {k})

\* Every start is a step of the encode.
StartsBelow(seq, steps) == \A n \in NoteSet(seq) : n.quantizedStartStep < steps

\* Every pitch is in the table and no class is hit twice at one step.
DrumPattern(c, seq) ==
  /\ \A n \in NoteSet(seq) : Mapped(c, n)
  /\ \A i, j \in 1..Len(seq) :
       (/\ i # j
        /\ seq[i].quantizedStartStep = seq[j].quantizedStartStep)
         => c.pitchToClass[seq[i].pitch] # c.pitchToClass[seq[j].pitch]

\* The hits a drum decode is expected to return for seq.
Hits(c, seq) ==
  {<<c.pitchClasses[c.pitchToClass[n.pitch] + 1][1], n.quantizedStartStep>> :
     n \in NoteSet(seq)}

(***************************************************************************)
(* C2.  Drum one-hot round trip: for a pattern with mapped pitches, starts *)
(* below the step count and at most one note per class per step, the label *)
(* of each step is the sum of 2^c over the classes hit there, below depth, *)
(* and the decode returns exactly one one-step drum note per (first pitch  *)
(* of the class, start) of the input.                                      *)
(***************************************************************************)
DrumsOneHotRoundTrip ==
  (IsOneHotConv /\ DrumPattern(conv, Notes) /\ StartsBelow(Notes, StepCount)) =>
    /\ pc = "encoded" =>
         /\ tensor.error = "none"
         /\ Len(tensor.rows) = StepCount
         /\ \A s \in 0..(StepCount - 1) :
              LET label == SumPow2(ClassesHit(conv, Notes, s))
              IN /\ label < conv.depth
                 /\ conv.depth = Pow2(ClassCount(conv))
                 /\ \A k \in 0..(conv.depth - 1) :
                      tensor.rows[s + 1][k + 1] = IF k = label THEN 1 ELSE 0
    /\ pc = "decoded" =>
         /\ {<<n.pitch, n.quantizedStartStep>> : n \in NoteSet(decoded)}
              = Hits(conv, Notes)
         /\ Len(decoded) = Cardinality(Hits(conv, Notes))
         /\ \A n \in NoteSet(decoded) :
              n.quantizedEndStep = n.quantizedStartStep + 1 /\ n.isDrum

\* Two classes hit at one step, one of them through a pitch that is not the
\* first of its class.
DrumsOneHotRoundTripWitness ==
  /\ IsOneHotConv
  /\ DrumPattern(conv, Notes)
  /\ StartsBelow(Notes, StepCount)
  /\ pc = "decoded"
  /\ \E s \in 0..(StepCount - 1) : Cardinality(ClassesHit(conv, Notes, s)) = 2
  /\ \E n \in NoteSet(Notes) :
       n.pitch # conv.pitchClasses[conv.pitchToClass[n.pitch] + 1][1]

(***************************************************************************)
(* C5.  Drum roll encode: in row s, class column c is 1 exactly when a     *)
(* note of class c starts at step s, and the trailing silence column is 1  *)
(* exactly when no note starts at step s.                                  *)
(***************************************************************************)
DrumRollRows ==
  (/\ IsRollConv
   /\ pc = "encoded"
   /\ \A n \in NoteSet(Notes) : Mapped(conv, n)
   /\ StartsBelow(Notes, StepCount)) =>
    /\ Len(tensor.rows) = StepCount
    /\ \A s \in 0..(StepCount - 1) :
         /\ \A c \in 0..(ClassCount(conv) - 1) :
              tensor.rows[s + 1][c + 1] = 1 <=> c \in ClassesHit(conv, Notes, s)
         /\ tensor.rows[s + 1][ClassCount(conv) + 1] = 1
              <=> ClassesHit(conv, Notes, s) = {}

(***************************************************************************)
(* C8.  Unmapped pitch: a drum encode of a sequence holding a note whose   *)
(* pitch is in no class fails with the UnmappedPitch error and returns no  *)
(* buffer.                                                                 *)
(***************************************************************************)
UnmappedPitchFails ==
  (/\ IsRollConv \/ IsOneHotConv
   /\ pc = "encoded"
   /\ \E n \in NoteSet(Notes) : ~Mapped(conv, n)) =>
    tensor.error = "UnmappedPitch"

(***************************************************************************)
(* C7.  Shape of the encode: toTensor returns a buffer of shape            *)
(* [stepCount, depth] for every converter kind.                            *)
(***************************************************************************)
IsTrioConv == conv.type = "TrioConverter"

\* A successful encode of notes that all start on a step of the encode.
ValidEncode ==
  /\ pc = "encoded"
  /\ tensor.error = "none"
  /\ StartsBelow(Notes, StepCount)

\* C7: every converter's toTensor returns [stepCount, depth], depth being
\* the converter's declared depth.
EncodeShape == ValidEncode => tensor.shape = <<StepCount, conv.depth>>

(***************************************************************************)
(* Vocabulary of the trio properties: the three partitions of the input.  *)
(***************************************************************************)
InMelody(n) == ~n.isDrum /\ n.program \in 0..31

InBass(n) == ~n.isDrum /\ n.program \in 32..39

InDrums(n) == n.isDrum

Matched(n) == InMelody(n) \/ InBass(n) \/ InDrums(n)

MelodyPart == SelectSeq(Notes, InMelody)

BassPart == SelectSeq(Notes, InBass)

DrumsPart == SelectSeq(Notes, InDrums)

WithNotes(seq) == [noteSequence EXCEPT !.notes = seq]

Monophonic(seq, c) ==
  /\ ~Overlapping(seq)
  /\ \A n \in NoteSet(seq) : ~OutOfRange(n, c.minPitch, c.maxPitch)

\* The precondition of C3 as stated.
TrioTracksValid ==
  /\ IsTrioConv
  /\ Monophonic(MelodyPart, conv.melConverter)
  /\ Monophonic(BassPart, conv.bassConverter)
  /\ DrumPattern(conv.drumsConverter, DrumsPart)

\* The same, with every note on the steps of the encode.
TrioRepresentable ==
  /\ TrioTracksValid
  /\ \A n \in NoteSet(MelodyPart) \cup NoteSet(BassPart) :
       n.quantizedEndStep <= StepCount
  /\ StartsBelow(DrumsPart, StepCount)

Tagged(seq, inst, prog) ==
  {[n EXCEPT !.instrument = inst, !.program = prog] : n \in NoteSet(seq)}

DrumCore(n) ==
  <<n.pitch, n.quantizedStartStep, n.quantizedEndStep, n.isDrum, n.instrument>>

\* The drum notes expected back, with the input end or as one-step notes.
DrumsBack(keepEnd) ==
  {<<conv.drumsConverter.pitchClasses[
        conv.drumsConverter.pitchToClass[n.pitch] + 1][1],
     n.quantizedStartStep,
     IF keepEnd THEN n.quantizedEndStep ELSE n.quantizedStartStep + 1,
     TRUE, 2>> : n \in NoteSet(DrumsPart)}

\* decoded is the melody notes, then the bass notes, then the drum notes.
TrioTracks(keepEnd) ==
  LET m == Len(MelodyPart)
      b == Len(BassPart)
      d == Len(DrumsPart)
  IN /\ Len(decoded) = m + b + d
     /\ {decoded[i] : i \in 1..m} = Tagged(MelodyPart, 0, 0)
     /\ {decoded[i] : i \in (m + 1)..(m + b)} = Tagged(BassPart, 1, 32)
     /\ {DrumCore(decoded[i]) : i \in (m + b + 1)..(m + b + d)}
          = DrumsBack(keepEnd)

(***************************************************************************)
(* C3.  Trio round trip and track tagging.                                 *)
(***************************************************************************)
\* C3 as stated: every note comes back with its pitch, start and end.
TrioRoundTripAsStated ==
  (TrioTracksValid /\ pc = "decoded") => TrioTracks(TRUE)

\* C3 amended: when moreover every melody and bass note ends by the step
\* count and every drum note starts below it, the melody notes come back
\* with instrument 0 and program 0, then the bass notes with instrument 1 and
\* program 32, then the drum notes with instrument 2 and isDrum; melody and
\* bass notes keep pitch, start and end, a drum note keeps its start, takes
\* the first pitch of its class and ends one step after its start whatever
\* its input end.
TrioRoundTrip ==
  TrioRepresentable =>
    /\ pc = "encoded" => tensor.error = "none"
    /\ pc = "decoded" => TrioTracks(FALSE)

TrioRoundTripWitness ==
  /\ TrioRepresentable
  /\ pc = "decoded"
  /\ \E n \in NoteSet(MelodyPart) : n.program # 0
  /\ \E n \in NoteSet(BassPart) : n.program = 32
  /\ \E n \in NoteSet(DrumsPart) : n.quantizedEndStep # n.quantizedStartStep + 1

(***************************************************************************)
(* C6.  Trio encode partitioning: the buffer is the concatenation of the  *)
(* melody encode of the non-drum notes with program in [0,31], the bass    *)
(* encode of the non-drum notes with program in [32,39] and the drum       *)
(* encode of the drum notes; notes of no partition change neither the      *)
(* buffer nor the outcome.                                                 *)
(***************************************************************************)
TrioPartitions ==
  (IsTrioConv /\ pc = "encoded") =>
    /\ \A n \in NoteSet(Notes) :
         Cardinality({k \in 1..3 : <<InMelody(n), InBass(n), InDrums(n)>>[k]}) <= 1
    /\ LET mel == MelodyConverter_toTensor(conv.melConverter, WithNotes(MelodyPart))
           bass == MelodyConverter_toTensor(conv.bassConverter, WithNotes(BassPart))
           drums == DrumsOneHotConverter_toTensor(conv.drumsConverter,
                                                  WithNotes(DrumsPart))
       IN tensor = IF mel.error # "none" THEN mel
                   ELSE IF bass.error # "none" THEN bass
                   ELSE Concat(<<mel, bass, drums>>)
    /\ tensor = TrioConverter_toTensor(conv, WithNotes(SelectSeq(Notes, Matched)))

TrioPartitionsWitness ==
  /\ IsTrioConv
  /\ pc = "encoded"
  /\ tensor.error = "none"
  /\ \E n \in NoteSet(Notes) : ~Matched(n)
  /\ MelodyPart # <<>>
  /\ DrumsPart # <<>>

====
